---- MODULE Spec2Model ----
(***************************************************************************)
(* A model of the DG-LAB V3-socket to V2-BLE bridge.                       *)
(*                                                                         *)
(* Three programs of the repository are modelled over one set of           *)
(* variables:                                                              *)
(*   - MainWindow of DG-LAB-V3-SOCKET-To-V2-BLE-V1.0.3R.py (the plain      *)
(*     names: handle_strength_change, process_wave_queues, ...);           *)
(*   - MainWindow of the first release,                                    *)
(*     DG-LAB-E-STIM-Power-Box-V3-SOCKEY-Server-To-V2-Bluetooth-           *)
(*     Converter.py (the names starting with Conv_), which differs in the  *)
(*     wave queue (unbounded deque, only (x,y,z) entries) and in           *)
(*     update_max_strength;                                                *)
(*   - SocketManager / BLEManager of New-Code (the names starting with     *)
(*     SM_ and BLE_).                                                      *)
(***************************************************************************)
EXTENDS Integers, Sequences, FiniteSets, TLC

VARIABLES
    release,            \* which MainWindow program runs: "R103" | "Conv"
    current_strength,   \* MainWindow.current_strength: channel -> int
    max_strength,       \* MainWindow.max_strength: channel -> int
    wave_queues,        \* MainWindow.wave_queues: channel -> deque
    ble_state,          \* "none" | "connected" | "lost": ble_client / is_connected
    ws_state,           \* the listen_websocket task: "off" | "connecting" | "open" | "closed"
    tick_pc,            \* process_wave_queues task: "off" | "A" | "B" | "dead"
    ws_pending,         \* handle_strength_change of the socket handler, suspended in its BLE write
    ui_pending,         \* handle_strength_change tasks of the UI buttons, suspended in their BLE write
    ble_out,            \* characteristic writes issued by the last step
    last_op,            \* what the last step did (operation, channel, outcome)
    ticks_since,        \* per channel: ticks since its last waveform frame (-1: no frame yet)
    last_gap,           \* per channel: ticks between its last two waveform frames (0: fewer than two)
    cleared,            \* per channel: cleared and nothing appended since
    events,             \* number of inbound socket messages and UI clicks handled
    emitted,            \* status signals and socket envelopes sent by the last step
    channel_intensity,  \* SocketManager.channel_intensity: key -> int
    sm_max_strength,    \* SocketManager.max_strength
    sm_ble_connected,   \* BLEManager.is_connected, seen by SocketManager
    sm_out,             \* characteristic writes issued by the last SocketManager step
    sm_last_op,         \* what the last SocketManager step did
    sm_ws,              \* SocketManager.ws: "none" | "open" | "closed" (closed by the peer)
    sm_running,         \* SocketManager.running
    sm_listeners,       \* the _listen tasks that have been started and have not ended
    client_id,          \* SocketManager.client_id ("None" when unset)
    target_id,          \* SocketManager.target_id ("None" when unset)
    sm_sent,            \* envelopes sent on the socket by the last SocketManager step
    sm_received,        \* the envelope handled by the last SocketManager step
    pc_call,            \* a call of a conversion function: its name and arguments
    pc_result,          \* what the call returned or raised (NoResult before it ran)
    bm_client,          \* BLEManager.client: "unset", or a client "connected" / "disconnected"
    bm_current_strength, \* BLEManager.current_strength
    bm_out,             \* the characteristic writes issued by the last BLEManager call
    bm_ret              \* the last BLEManager call: its arguments, the state of the
                        \* link at the call, the fate of its write, what it returned

mwvars == <<release, current_strength, max_strength, wave_queues, ble_state, ws_state,
            tick_pc, ws_pending, ui_pending, ble_out, last_op, ticks_since,
            last_gap, cleared, events, emitted>>
sessvars == <<sm_ws, sm_running, sm_listeners, client_id, target_id, sm_sent, sm_received>>
pcvars == <<pc_call, pc_result, bm_client, bm_current_strength, bm_out, bm_ret>>
smcore == <<channel_intensity, sm_max_strength, sm_ble_connected, sm_out, sm_last_op, sessvars>>
smvars == <<smcore, pcvars>>
vars == <<mwvars, smvars>>

-----------------------------------------------------------------------------
(* Bounds of the model *)

MaxEvents == 2
MaxUiTasks == 1
\* _listen tasks alive at once
MaxListeners == 2

(* Program constants *)

QueueMaxlen == 100
MaxPulseElements == 100
FlushSize == 4
LimitCeiling == 200
TickCap == 4

Ch == {"A", "B"}

DEFAULT_MAX_STRENGTH == [c \in Ch |-> 100]

Min(a, b) == IF a < b THEN a ELSE b
Max(a, b) == IF a > b THEN a ELSE b

-----------------------------------------------------------------------------
(* Inputs *)

ChannelNums == {1, 2, 3}
Modes == {0, 1, 2, 3}
Values == {-30, 30, 90, 250}
LimitInputs == {60, 201}
InitLimits == {0, 60, 100, 200}

\* hex digits of an element; 16 stands for a character that is no hex digit
E_0A0A == <<0,10, 0,10, 0,10, 0,10, 6,4, 6,4, 6,4, 6,4>>
E_6464 == <<6,4, 6,4, 6,4, 6,4, 0,10, 0,10, 0,10, 0,10>>
E_FF00 == <<15,15, 0,0, 15,15, 0,0, 15,15, 0,0, 15,15, 0,0>>
E_bad  == <<16,16, 0,0, 0,0, 0,0, 0,0, 0,0, 0,0, 0,0>>

Rep(e, n) == [i \in 1..n |-> e]

\* the JSON arrays of the pulse messages, by name
PulseNames == {"one", "four", "bad2"}
LongPulseNames == {"one", "long"}

PulseArray(name) ==
    CASE name = "one"  -> <<E_0A0A>>
      [] name = "four" -> <<E_0A0A, E_6464, E_FF00, E_6464>>
      [] name = "bad2" -> <<E_6464, E_bad, E_0A0A>>
      [] name = "long" -> Rep(E_FF00, MaxPulseElements + 1)

ChParts == {"A", "b", "C"}
ClearArgs == {"1", "2", "9"}

-----------------------------------------------------------------------------
(* Pure functions of MainWindow *)

\* int(sqrt(num/den)): the largest x with den * x^2 <= num
FloorRoot(num, den) ==
    CHOOSE x \in 0..64 : den * x * x <= num /\ den * (x + 1) * (x + 1) > num

Clamp(lo, hi, v) == Max(lo, Min(hi, v))

\* (v3_freq_to_v2_NoFloor: without max(1, ..) on y and without the final
\* clamps)
v3_freq_to_v2_NoFloor(freq_input) ==
    IF 10 <= freq_input /\ freq_input <= 100 THEN
        LET x == Max(1, FloorRoot(16 * freq_input, 25))
        IN  <<x, (1000 \div freq_input) - x>>
    ELSE IF 101 <= freq_input /\ freq_input <= 600 THEN
        LET x == FloorRoot(36 * (freq_input + 400), 125)
        IN  <<x, (1000 \div freq_input) - x>>
    ELSE IF 601 <= freq_input /\ freq_input <= 1000 THEN
        LET x == FloorRoot(freq_input, 4)
        IN  <<x, (1000 \div freq_input) - x>>
    ELSE <<1, 9>>
v3_freq_to_v2(freq_input) ==
    LET xy ==
          IF 10 <= freq_input /\ freq_input <= 100 THEN
              LET x == Max(1, FloorRoot(16 * freq_input, 25))
              IN  <<x, (1000 \div freq_input) - x>>
          ELSE IF 101 <= freq_input /\ freq_input <= 600 THEN
              LET x == FloorRoot(36 * (freq_input + 400), 125)
              IN  <<x, Max(1, (1000 \div freq_input) - x)>>
          ELSE IF 601 <= freq_input /\ freq_input <= 1000 THEN
              LET x == FloorRoot(freq_input, 4)
              IN  <<x, Max(1, (1000 \div freq_input) - x)>>
          ELSE <<1, 9>>
    IN  <<Clamp(1, 31, xy[1]), Clamp(1, 1023, xy[2])>>

\* (v3_intensity_to_v2_z_NoBase: without the 20 added)
v3_intensity_to_v2_z_NoBase(intensity) == Min(31, (15 * intensity) \div 100)
v3_intensity_to_v2_z(intensity) == Min(31, 20 + ((15 * intensity) \div 100))

encode_pwm_ab2(a, b) ==
    LET a_val == Min((a * 2047) \div 200, 2047)
        b_val == Min((b * 2047) \div 200, 2047)
    IN  << (a_val \div 8) % 256,
           ((a_val % 8) * 32) + ((b_val \div 64) % 32),
           (b_val % 64) * 4 >>

encode_pwm_channel(x, y, z) ==
    LET word == ((z % 32) * 524288) + ((y % 1024) * 32) + (x % 32)
    IN  << word % 256, (word \div 256) % 256, (word \div 65536) % 256 >>

-----------------------------------------------------------------------------
(* Entries of a wave queue: a tuple (x,y,z), or a bare int *)

XYZ(x, y, z) == [tag |-> "xyz", x |-> x, y |-> y, z |-> z]
IntEntry(n)  == [tag |-> "int", x |-> n, y |-> 0, z |-> 0]

\* deque(maxlen=100).append
DequeAppend(q, e) ==
    IF Len(q) >= QueueMaxlen THEN Append(Tail(q), e) ELSE Append(q, e)

\* int(s, 16) of a slice of an element
HexOk(s) == Len(s) >= 1 /\ \A i \in 1..Len(s) : s[i] \in 0..15
HexVal(s) == IF Len(s) = 1 THEN s[1] ELSE (s[1] * 16) + s[2]
Slice(s, lo, hi) == SubSeq(s, lo, Min(hi, Len(s)))

Write(char, data) == [char |-> char, data |-> data]

\* the record of a step: the operation and its inputs as they arrived
Op(op, ch, mode, value, msg) ==
    [op |-> op, num |-> 0, ch |-> ch, mode |-> mode, value |-> value, msg |-> msg]

StrengthOp(channel_num, mode, value) ==
    [op |-> "strength", num |-> channel_num, ch |-> "-", mode |-> mode,
     value |-> value, msg |-> ""]

NoOp == Op("init", "-", 0, 0, "")

\* the fields of a received envelope that SocketManager reads; Absent stands
\* for a key that the JSON object does not have
Absent == "(absent)"

Data(type, message, clientId, targetId) ==
    [type |-> type, message |-> message, clientId |-> clientId, targetId |-> targetId]

NoData == Data(Absent, Absent, Absent, Absent)

PwmChar(ch) == IF ch = "A" THEN "PWM_A34" ELSE "PWM_B34"

\* signals.status_update.emit(ch, str(new))
StatusUpdate(ch, new) ==
    [kind |-> "status", type |-> "", ch |-> ch, num |-> 0, value |-> new,
     clientId |-> "", targetId |-> "", message |-> ""]

\* an envelope sent on the socket
Envelope(type, clientId, targetId, message) ==
    [kind |-> "ws", type |-> type, ch |-> "-", num |-> 0, value |-> 0,
     clientId |-> clientId, targetId |-> targetId, message |-> message]

\* {"type": "msg", .., "targetId": "", "message": f"strength-{channel_num}+2+{new}"}:
\* the two numbers of the message text are kept in num and value
StrengthReport(channel_num, new) ==
    [kind |-> "ws", type |-> "msg", ch |-> "-", num |-> channel_num, value |-> new,
     clientId |-> "DEVICE_ID", targetId |-> "", message |-> "strength-+2+"]

-----------------------------------------------------------------------------
(* MainWindow.__init__ *)

\* a call of a conversion function: text is the string argument as a sequence
\* of characters, fields the pieces the text was put together from, args the
\* integer arguments
Call(fn, text, fields, args) == [fn |-> fn, text |-> text, fields |-> fields, args |-> args]
NoCall == Call("none", <<>>, <<>>, <<>>)

\* the outcome of a call: a tuple or the bytes of a frame in out, the channel
\* letter of a parsed command in channel; or the exception raised
PC_Return(out, channel) == [raised |-> "none", out |-> out, channel |-> channel]
PC_Raise(exc) == [raised |-> exc, out |-> <<>>, channel |-> "-"]
NoResult == [raised |-> "(not run)", out |-> <<>>, channel |-> "-"]

InitGhost ==
    /\ ble_out = <<>>
    /\ last_op = NoOp
    /\ ticks_since = [c \in Ch |-> -1]
    /\ last_gap = [c \in Ch |-> 0]
    /\ cleared = [c \in Ch |-> FALSE]
    /\ events = 0
    /\ emitted = <<>>

InitSM ==
    /\ channel_intensity = [c \in Ch |-> 0]
    /\ sm_max_strength = DEFAULT_MAX_STRENGTH
    /\ sm_ble_connected = FALSE
    /\ sm_out = <<>>
    /\ sm_last_op = NoOp
    /\ sm_ws = "none"
    /\ sm_running = FALSE
    /\ sm_listeners = 0
    /\ pc_call = NoCall
    /\ pc_result = NoResult
    /\ bm_client = "unset"
    /\ bm_current_strength = [c \in Ch |-> 0]
    /\ bm_out = <<>>
    /\ bm_ret = [fn |-> "init", channel |-> "-", strength |-> 0, link |-> "unset",
                 write_ok |-> FALSE, returned |-> "-"]
    /\ client_id = "None"
    /\ target_id = "None"
    /\ sm_sent = <<>>
    /\ sm_received = NoData

InitMainWindow(rel) ==
    /\ release = rel
    /\ current_strength = [c \in Ch |-> 0]
    /\ wave_queues = [c \in Ch |-> <<>>]
    /\ ble_state = "none"
    /\ ws_state = "off"
    /\ tick_pc = "off"
    /\ ws_pending = <<>>
    /\ ui_pending = <<>>
    /\ InitGhost

-----------------------------------------------------------------------------
(* MainWindow.send_ble_command: the write is issued only while the link is  *)
(* up; a write that raises is caught and logged, with no other effect.      *)

send_ble_command(char_uuid, data) ==
    IF ble_state = "connected" THEN <<Write(char_uuid, data)>> ELSE <<>>

-----------------------------------------------------------------------------
(* MainWindow.process_wave_queues: one pass of the loop body over a channel *)

Popleft4(q) == SubSeq(q, FlushSize + 1, Len(q))

\* sum(...) // 4 over the four popped entries
\* (Mean4_Rounded: round(sum / 4) in place of the floor division)
Mean4_Rounded(a, b, c, d) == (a + b + c + d + 2) \div 4
Mean4(a, b, c, d) == (a + b + c + d) \div 4

\* (TickChannel_NoDepthCheck: the four poplefts without the test of the
\* depth; popleft of an empty deque raises IndexError)
TickChannel_NoDepthCheck(ch, q) ==
    IF Len(q) >= FlushSize /\ \A i \in 1..FlushSize : q[i].tag = "xyz" THEN
        [q |-> Popleft4(q), raised |-> FALSE,
         writes |-> send_ble_command(PwmChar(ch),
                        encode_pwm_channel(Mean4(q[1].x, q[2].x, q[3].x, q[4].x),
                                           Mean4(q[1].y, q[2].y, q[3].y, q[4].y),
                                           Mean4(q[1].z, q[2].z, q[3].z, q[4].z))),
         suspended |-> ble_state = "connected"]
    ELSE [q |-> Popleft4(q), raised |-> TRUE, writes |-> <<>>, suspended |-> FALSE]
TickChannel(ch, q) ==
    IF Len(q) >= FlushSize THEN
        LET params == SubSeq(q, 1, FlushSize)
            rest == Popleft4(q)
        IN  IF \E i \in 1..FlushSize : params[i].tag # "xyz" THEN
                \* p[0] of an int raises TypeError, outside of any try
                [q |-> rest, raised |-> TRUE, writes |-> <<>>, suspended |-> FALSE]
            ELSE
                LET avg_x == Mean4(params[1].x, params[2].x, params[3].x, params[4].x)
                    avg_y == Mean4(params[1].y, params[2].y, params[3].y, params[4].y)
                    avg_z == Mean4(params[1].z, params[2].z, params[3].z, params[4].z)
                    data == encode_pwm_channel(avg_x, avg_y, avg_z)
                IN  [q |-> rest, raised |-> FALSE,
                     writes |-> send_ble_command(PwmChar(ch), data),
                     suspended |-> ble_state = "connected"]
    ELSE [q |-> q, raised |-> FALSE, writes |-> <<>>, suspended |-> FALSE]

Written(writes) == writes # <<>>

\* bookkeeping of the ticks between waveform frames of a channel
SinceAfter(ch, passed, written) ==
    IF ~passed THEN ticks_since[ch]
    ELSE IF written THEN 0
    ELSE IF ticks_since[ch] < 0 THEN -1
    ELSE Min(TickCap, ticks_since[ch] + 1)

GapAfter(ch, passed, written) ==
    IF passed /\ written /\ ticks_since[ch] >= 0
    THEN Min(TickCap, ticks_since[ch] + 1)
    ELSE last_gap[ch]

TickGhost(passedA, wA, passedB, wB) ==
    /\ ticks_since' = [c \in Ch |-> IF c = "A" THEN SinceAfter("A", passedA, wA)
                                               ELSE SinceAfter("B", passedB, wB)]
    /\ last_gap' = [c \in Ch |-> IF c = "A" THEN GapAfter("A", passedA, wA)
                                            ELSE GapAfter("B", passedB, wB)]

\* the loop body from its top: channel A, then channel B unless the write of
\* A suspends the task or the pass over A raises
process_wave_queues ==
    /\ tick_pc = "A"
    /\ LET ra == TickChannel("A", wave_queues["A"])
           rb == TickChannel("B", wave_queues["B"])
       IN  IF ra.raised THEN
               /\ wave_queues' = [wave_queues EXCEPT !["A"] = ra.q]
               /\ tick_pc' = "dead"
               /\ ble_out' = <<>>
               /\ last_op' = Op("tick", "A", 0, 0, "")
               /\ TickGhost(TRUE, FALSE, FALSE, FALSE)
           ELSE IF ra.suspended THEN
               /\ wave_queues' = [wave_queues EXCEPT !["A"] = ra.q]
               /\ tick_pc' = "B"
               /\ ble_out' = ra.writes
               /\ last_op' = Op("tick", "A", 0, 0, "")
               /\ TickGhost(TRUE, Written(ra.writes), FALSE, FALSE)
           ELSE
               /\ wave_queues' = [c \in Ch |-> IF c = "A" THEN ra.q ELSE rb.q]
               /\ tick_pc' = IF rb.raised THEN "dead" ELSE "A"
               /\ ble_out' = rb.writes
               /\ last_op' = Op("tick", "AB", 0, 0, "")
               /\ TickGhost(TRUE, FALSE, TRUE, Written(rb.writes))
    /\ emitted' = <<>>
    /\ UNCHANGED <<release, current_strength, max_strength, ble_state, ws_state,
                   ws_pending, ui_pending, cleared, events>>
    /\ UNCHANGED smvars

\* the loop body resumed after the write for channel A: channel B, then sleep
process_wave_queues_resume ==
    /\ tick_pc = "B"
    /\ LET rb == TickChannel("B", wave_queues["B"])
       IN  /\ wave_queues' = [wave_queues EXCEPT !["B"] = rb.q]
           /\ tick_pc' = IF rb.raised THEN "dead" ELSE "A"
           /\ ble_out' = rb.writes
           /\ last_op' = Op("tick", "B", 0, 0, "")
           /\ TickGhost(FALSE, FALSE, TRUE, Written(rb.writes))
    /\ emitted' = <<>>
    /\ UNCHANGED <<release, current_strength, max_strength, ble_state, ws_state,
                   ws_pending, ui_pending, cleared, events>>
    /\ UNCHANGED smvars

-----------------------------------------------------------------------------
(* MainWindow.handle_strength_change (V1.0.3R) *)

ChannelOf(channel_num) == IF channel_num = 1 THEN "A" ELSE "B"

StrengthCandidate(current, mode, value) ==
    IF mode = 0 THEN current - value
    ELSE IF mode = 1 THEN current + value
    ELSE value

\* if new > self.max_strength[ch]: the change is dropped
\* (OverLimit_Never: the test left out, the clamp below takes over)
OverLimit_Never(cand, limit) == FALSE
OverLimit(cand, limit) == cand > limit

\* new = max(0, min(new, self.max_strength[ch]))
\* (ClampNew_NoFloor: without the max(0, ..))
ClampNew_NoFloor(cand, limit) == Min(cand, limit)
ClampNew(cand, limit) == Max(0, Min(cand, limit))

Pending(channel_num, ch, old_value, new) ==
    [num |-> channel_num, ch |-> ch, old |-> old_value, new |-> new]

\* what follows the BLE write: the status signal, and the report to the
\* server when the value has changed and ws_client is set
AfterWrite(p) ==
    <<StatusUpdate(p.ch, p.new)>> \o
    (IF p.new # p.old /\ ws_state = "open" THEN <<StrengthReport(p.num, p.new)>> ELSE <<>>)

\* from the entry to the first suspension (the BLE write), or to the end when
\* nothing suspends; from_ws tells whose task it is
handle_strength_change(channel_num, mode, value, from_ws) ==
    LET ch == ChannelOf(channel_num)
        current == current_strength[ch]
        cand == StrengthCandidate(current, mode, value)
    IN  IF mode \notin {0, 1, 2} THEN
            /\ ble_out' = <<>>
            /\ emitted' = <<>>
            /\ UNCHANGED <<current_strength, wave_queues, ws_pending, ui_pending, cleared>>
        ELSE IF OverLimit(cand, max_strength[ch]) THEN
            \* channel_over_limit is logged
            /\ ble_out' = <<>>
            /\ emitted' = <<>>
            /\ UNCHANGED <<current_strength, wave_queues, ws_pending, ui_pending, cleared>>
        ELSE
            LET new == ClampNew(cand, max_strength[ch])
                cs == [current_strength EXCEPT ![ch] = new]
                p == Pending(channel_num, ch, current, new)
            IN  /\ current_strength' = cs
                /\ ble_out' = send_ble_command("PWM_AB2", encode_pwm_ab2(cs["A"], cs["B"]))
                /\ IF ble_state = "connected" THEN
                       /\ IF from_ws
                          THEN ws_pending' = Append(ws_pending, p)
                               /\ UNCHANGED ui_pending
                          ELSE ui_pending' = Append(ui_pending, p)
                               /\ UNCHANGED ws_pending
                       /\ emitted' = <<>>
                       /\ UNCHANGED <<wave_queues, cleared>>
                   ELSE
                       /\ emitted' = AfterWrite(p)
                       /\ wave_queues' = [wave_queues EXCEPT ![ch] = DequeAppend(@, IntEntry(new))]
                       /\ cleared' = [cleared EXCEPT ![ch] = FALSE]
                       /\ UNCHANGED <<ws_pending, ui_pending>>

\* after the BLE write: the status signal, the new value appended to the wave
\* queue of the channel, the report to the server
ResumeStrength(p) ==
    /\ emitted' = AfterWrite(p)
    /\ wave_queues' = [wave_queues EXCEPT ![p.ch] = DequeAppend(@, IntEntry(p.new))]
    /\ cleared' = [cleared EXCEPT ![p.ch] = FALSE]
    /\ ble_out' = <<>>
    /\ last_op' = Op("strength_resume", p.ch, 0, p.new, "")
    /\ UNCHANGED <<release, current_strength, max_strength, ble_state, ws_state,
                   tick_pc, ticks_since, last_gap, events>>
    /\ UNCHANGED smvars

RemoveAt(s, i) == SubSeq(s, 1, i - 1) \o SubSeq(s, i + 1, Len(s))

handle_strength_change_resume ==
    /\ release = "R103"
    /\ \/ /\ ws_pending # <<>>
          /\ ResumeStrength(ws_pending[1])
          /\ ws_pending' = <<>>
          /\ UNCHANGED ui_pending
       \/ \E i \in 1..Len(ui_pending) :
            /\ ResumeStrength(ui_pending[i])
            /\ ui_pending' = RemoveAt(ui_pending, i)
            /\ UNCHANGED ws_pending

-----------------------------------------------------------------------------
(* MainWindow.handle_socket_message (V1.0.3R), one action per command       *)

\* the listener is in ws.recv(): the socket is open and the handler of the
\* previous message has returned
CanReceive == ws_state = "open" /\ ws_pending = <<>> /\ events < MaxEvents

\* except Exception as e: the message_process_error is logged and the handler
\* returns; every class the body raises derives from Exception
\* (Caught_ValueError: except ValueError in its place)
Caught_ValueError(exc) == exc \in {"ValueError", "JSONDecodeError"}
Caught(exc) ==
    exc \in {"ValueError", "JSONDecodeError", "KeyError", "IndexError", "TypeError",
             "AttributeError"}

\* the receive loop after a handler call: an exception that leaves the handler
\* ends the loop (the break of V1.0.3R, the outer except of the first release)
ListenAfter(exc) == IF exc = "none" \/ Caught(exc) THEN "open" ELSE "closed"

handle_socket_message_strength ==
    /\ release = "R103"
    /\ CanReceive
    /\ \E channel_num \in ChannelNums, mode \in Modes, value \in Values :
         /\ handle_strength_change(channel_num, mode, value, TRUE)
         /\ last_op' = StrengthOp(channel_num, mode, value)
    /\ events' = events + 1
    /\ UNCHANGED <<release, max_strength, ble_state, ws_state, tick_pc, ticks_since, last_gap>>
    /\ UNCHANGED smvars

\* a strength message with four fields, strength-<a>+<b>+<aMax>+<bMax>:
\* cmd[9:].split('+') has four parts, of which the first three are passed to
\* handle_strength_change as channel, mode and value, and the fourth is not
\* read
handle_socket_message_strength_bulk ==
    /\ release = "R103"
    /\ CanReceive
    /\ \E parts \in { <<1, 1, 90, 90>>, <<30, 0, 90, 90>>, <<1, 30, 90, 90>> } :
         /\ handle_strength_change(parts[1], parts[2], parts[3], TRUE)
         /\ last_op' = [StrengthOp(parts[1], parts[2], parts[3]) EXCEPT !.msg = "bulk"]
    /\ events' = events + 1
    /\ UNCHANGED <<release, max_strength, ble_state, ws_state, tick_pc, ticks_since, last_gap>>
    /\ UNCHANGED smvars

Upper(ch_part) == IF ch_part = "b" THEN "B" ELSE ch_part

ElementOk(hex_str) == HexOk(Slice(hex_str, 1, 2)) /\ HexOk(Slice(hex_str, 3, 4))

\* the number of leading elements of hex_waves that parse: the for loop
\* stops at the first element whose int(.., 16) raises
NParsed(hex_waves) ==
    CHOOSE n \in 0..Len(hex_waves) :
        /\ \A i \in 1..n : ElementOk(hex_waves[i])
        /\ n = Len(hex_waves) \/ ~ElementOk(hex_waves[n + 1])

ElementXYZ(hex_str) ==
    LET freq == HexVal(Slice(hex_str, 1, 2))
        intensity == HexVal(Slice(hex_str, 3, 4))
        xy == v3_freq_to_v2(freq)
    IN  XYZ(xy[1], xy[2], v3_intensity_to_v2_z(intensity))

ElementIntensity(hex_str) == IntEntry(HexVal(Slice(hex_str, 3, 4)))

\* what the pulse branch raises: int(.., 16) of an element that is no hex
\* text, self.wave_queues[channel] of a channel that is no key
PulseRaises(channel, hex_waves) ==
    IF hex_waves = <<>> THEN "none"
    ELSE IF ~ElementOk(hex_waves[1]) THEN "ValueError"
    ELSE IF channel \notin Ch THEN "KeyError"
    ELSE IF NParsed(hex_waves) < Len(hex_waves) THEN "ValueError"
    ELSE "none"

\* what the loop appends, in order: (x,y,z) and then the intensity, per element
PulseAppends(hex_waves) ==
    [k \in 1..(2 * NParsed(hex_waves)) |->
        IF k % 2 = 1 THEN ElementXYZ(hex_waves[(k + 1) \div 2])
                     ELSE ElementIntensity(hex_waves[k \div 2])]

\* q.append(items[lo]); ...; q.append(items[hi]) on a deque(maxlen=100);
\* the test on left has it evaluated before the second half is appended
RECURSIVE DequeAppendAll(_, _, _, _)
DequeAppendAll(q, items, lo, hi) ==
    IF lo > hi THEN q
    ELSE IF lo = hi THEN DequeAppend(q, items[lo])
    ELSE LET mid == (lo + hi) \div 2
             left == DequeAppendAll(q, items, lo, mid)
         IN  IF Len(left) >= 0 THEN DequeAppendAll(left, items, mid + 1, hi) ELSE left

PulseLoop(q, hex_waves) ==
    LET items == PulseAppends(hex_waves)
    IN  DequeAppendAll(q, items, 1, Len(items))

First100(hex_waves) == SubSeq(hex_waves, 1, Min(MaxPulseElements, Len(hex_waves)))

pulse(names) ==
    /\ release = "R103"
    /\ CanReceive
    /\ \E ch_part \in ChParts, name \in names :
         LET channel == Upper(ch_part)
             hex_waves == PulseArray(name)
         IN  /\ IF channel \in Ch /\ hex_waves # <<>> /\ ElementOk(hex_waves[1]) THEN
                    /\ wave_queues' = [wave_queues EXCEPT
                                         ![channel] = PulseLoop(@, First100(hex_waves))]
                    /\ cleared' = [cleared EXCEPT ![channel] = FALSE]
                ELSE UNCHANGED <<wave_queues, cleared>>
             /\ ws_state' = ListenAfter(PulseRaises(channel, First100(hex_waves)))
             /\ last_op' = Op("pulse", channel, 0, 0, name)
    /\ ble_out' = <<>>
    /\ emitted' = <<>>
    /\ events' = events + 1
    /\ UNCHANGED <<release, current_strength, max_strength, ble_state, tick_pc,
                   ws_pending, ui_pending, ticks_since, last_gap>>
    /\ UNCHANGED smvars

handle_socket_message_pulse == pulse(PulseNames)

handle_socket_message_pulse_long == pulse(LongPulseNames)

\* channel = 'A' if cmd[6:] == '1' else 'B'
\* (ClearChannel_Swapped: the two letters exchanged)
ClearChannel_Swapped(arg) == IF arg = "1" THEN "B" ELSE "A"
ClearChannel(arg) == IF arg = "1" THEN "A" ELSE "B"

\* the channel a clear message names, "-" when it names none
ClearNamed(arg) == IF arg = "1" THEN "A" ELSE IF arg = "2" THEN "B" ELSE "-"

handle_socket_message_clear ==
    /\ CanReceive
    /\ \E arg \in ClearArgs :
         /\ wave_queues' = [wave_queues EXCEPT ![ClearChannel(arg)] = <<>>]
         /\ cleared' = [c \in Ch |-> (c = ClearNamed(arg)) \/ cleared[c]]
         /\ last_op' = Op("clear", "-", 0, 0, arg)
    /\ ble_out' = <<>>
    /\ emitted' = <<>>
    /\ events' = events + 1
    /\ UNCHANGED <<release, current_strength, max_strength, ble_state, ws_state, tick_pc,
                   ws_pending, ui_pending, ticks_since, last_gap>>
    /\ UNCHANGED smvars

\* the messages that reach no command branch, by what is wrong with them
DroppedKinds ==
    {"invalid_json", "no_type", "no_message", "not_a_string", "unknown_prefix",
     "bad_arity", "non_numeric", "break", "heartbeat"}

\* json.loads, msg["type"], msg["message"], cmd.startswith, parts[2], int(..)
Raises(kind) ==
    CASE kind = "invalid_json"   -> "JSONDecodeError"
      [] kind = "no_type"        -> "KeyError"
      [] kind = "no_message"     -> "KeyError"
      [] kind = "not_a_string"   -> "AttributeError"
      [] kind = "bad_arity"      -> "IndexError"
      [] kind = "non_numeric"    -> "ValueError"
      [] OTHER                   -> "none"

\* handle_socket_message of a message that changes nothing: one that raises
\* before its command is carried out, one whose type is not "msg" (break,
\* heartbeat: the handler returns at once), one with an unknown prefix
handle_socket_message_dropped ==
    /\ CanReceive
    /\ \E kind \in DroppedKinds :
         /\ ws_state' = ListenAfter(Raises(kind))
         /\ last_op' = Op("dropped", "-", 0, 0, kind)
    /\ ble_out' = <<>>
    /\ emitted' = <<>>
    /\ events' = events + 1
    /\ UNCHANGED <<release, current_strength, max_strength, wave_queues, ble_state, tick_pc,
                   ws_pending, ui_pending, ticks_since, last_gap, cleared>>
    /\ UNCHANGED smvars

-----------------------------------------------------------------------------
(* MainWindow.listen_websocket *)

\* {"type": "bind", "clientId": DEVICE_ID, "targetId": "", "message": "DGLAB"}
\* (BindEnvelope_ToSelf: the device id in targetId as well)
BindEnvelope_ToSelf == Envelope("bind", "DEVICE_ID", "DEVICE_ID", "DGLAB")
BindEnvelope == Envelope("bind", "DEVICE_ID", "", "DGLAB")

\* from the start of the task to its first ws.recv(): websockets.connect,
\* then the bind envelope is sent; a connect that raises ends the task
listen_websocket ==
    /\ ws_state = "connecting"
    /\ \E connected \in BOOLEAN :
         IF connected
         THEN ws_state' = "open" /\ emitted' = <<BindEnvelope>>
         ELSE ws_state' = "closed" /\ emitted' = <<>>
    /\ ble_out' = <<>>
    /\ last_op' = Op("listen", "-", 0, 0, "")
    /\ UNCHANGED <<release, current_strength, max_strength, wave_queues, ble_state,
                   tick_pc, ws_pending, ui_pending, ticks_since, last_gap, cleared, events>>
    /\ UNCHANGED smvars

\* ws.recv() raises websockets.ConnectionClosed: the peer has closed the
\* socket, the loop ends and ws_client is set to None
ConnectionClosed ==
    /\ ws_state = "open"
    /\ ws_pending = <<>>
    /\ ws_state' = "closed"
    /\ ble_out' = <<>>
    /\ emitted' = <<>>
    /\ last_op' = Op("closed", "-", 0, 0, "")
    /\ UNCHANGED <<release, current_strength, max_strength, wave_queues, ble_state,
                   tick_pc, ws_pending, ui_pending, ticks_since, last_gap, cleared, events>>
    /\ UNCHANGED smvars

-----------------------------------------------------------------------------
(* MainWindow: the buttons (V1.0.3R) *)

\* test_a_btn / test_b_btn: send_strength_command(1, 1, 10), (2, 1, 10)
send_strength_command ==
    /\ release = "R103"
    /\ events < MaxEvents
    /\ Len(ui_pending) < MaxUiTasks
    /\ \E channel_num \in {1, 2} :
         /\ handle_strength_change(channel_num, 1, 10, FALSE)
         /\ last_op' = [StrengthOp(channel_num, 1, 10) EXCEPT !.msg = "button"]
    /\ events' = events + 1
    /\ UNCHANGED <<release, max_strength, ble_state, ws_state, tick_pc, ticks_since, last_gap>>
    /\ UNCHANGED smvars

clear_queue ==
    /\ events < MaxEvents
    /\ \E channel \in Ch :
         /\ wave_queues' = [wave_queues EXCEPT ![channel] = <<>>]
         /\ cleared' = [cleared EXCEPT ![channel] = TRUE]
         /\ last_op' = Op("clear", channel, 0, 0, "button")
    /\ ble_out' = <<>>
    /\ emitted' = <<>>
    /\ events' = events + 1
    /\ UNCHANGED <<release, current_strength, max_strength, ble_state, ws_state, tick_pc,
                   ws_pending, ui_pending, ticks_since, last_gap>>
    /\ UNCHANGED smvars

update_max_strength ==
    /\ release = "R103"
    /\ events < MaxEvents
    /\ \E a_value \in LimitInputs, b_value \in LimitInputs :
         /\ IF a_value < 0 \/ a_value > LimitCeiling \/ b_value < 0 \/ b_value > LimitCeiling
            THEN UNCHANGED max_strength
            ELSE max_strength' = [c \in Ch |-> IF c = "A" THEN a_value ELSE b_value]
         /\ last_op' = Op("limits", "AB", a_value, b_value, "")
    /\ ble_out' = <<>>
    /\ emitted' = <<>>
    /\ events' = events + 1
    /\ UNCHANGED <<release, current_strength, wave_queues, ble_state, ws_state, tick_pc,
                   ws_pending, ui_pending, ticks_since, last_gap, cleared>>
    /\ UNCHANGED smvars

\* a connect that succeeds; it starts the process_wave_queues task
on_connect_clicked ==
    /\ release = "R103"
    /\ ble_state = "none"
    /\ ble_state' = "connected"
    /\ tick_pc' = "A"
    /\ ble_out' = <<>>
    /\ emitted' = <<>>
    /\ last_op' = Op("connect", "-", 0, 0, "")
    /\ UNCHANGED <<release, current_strength, max_strength, wave_queues, ws_state,
                   ws_pending, ui_pending, ticks_since, last_gap, cleared, events>>
    /\ UNCHANGED smvars

\* it starts the listen_websocket task and disables its button
on_connect_server_clicked ==
    /\ release = "R103"
    /\ ble_state = "connected"
    /\ ws_state = "off"
    /\ ws_state' = "connecting"
    /\ ble_out' = <<>>
    /\ emitted' = <<>>
    /\ last_op' = Op("connect_server", "-", 0, 0, "")
    /\ UNCHANGED <<release, current_strength, max_strength, wave_queues, ble_state,
                   tick_pc, ws_pending, ui_pending, ticks_since, last_gap, cleared, events>>
    /\ UNCHANGED smvars

\* the peripheral drops the link: ble_client.is_connected turns False
BleLinkLost ==
    /\ ble_state = "connected"
    /\ ble_state' = "lost"
    /\ ble_out' = <<>>
    /\ emitted' = <<>>
    /\ last_op' = Op("link_lost", "-", 0, 0, "")
    /\ UNCHANGED <<release, current_strength, max_strength, wave_queues, ws_state,
                   tick_pc, ws_pending, ui_pending, ticks_since, last_gap, cleared, events>>
    /\ UNCHANGED smvars

-----------------------------------------------------------------------------
(* MainWindow of the first release (Converter.py), where it differs         *)

\* the BLE write suspends the task, but all that follows it is the status
\* signal, which reads nothing of the state: the whole handler is one step
Conv_handle_strength_change(channel_num, mode, value) ==
    LET ch == ChannelOf(channel_num)
        current == current_strength[ch]
        cand == StrengthCandidate(current, mode, value)
    IN  IF mode \notin {0, 1, 2} THEN
            /\ ble_out' = <<>>
            /\ emitted' = <<>>
            /\ UNCHANGED current_strength
        ELSE IF OverLimit(cand, max_strength[ch]) THEN
            /\ ble_out' = <<>>
            /\ emitted' = <<>>
            /\ UNCHANGED current_strength
        ELSE
            LET new == ClampNew(cand, max_strength[ch])
                cs == [current_strength EXCEPT ![ch] = new]
            IN  /\ current_strength' = cs
                /\ ble_out' = send_ble_command("PWM_AB2", encode_pwm_ab2(cs["A"], cs["B"]))
                /\ emitted' = <<StatusUpdate(ch, new)>>

Conv_handle_socket_message_strength ==
    /\ release = "Conv"
    /\ CanReceive
    /\ \E channel_num \in ChannelNums, mode \in Modes, value \in Values :
         /\ Conv_handle_strength_change(channel_num, mode, value)
         /\ last_op' = StrengthOp(channel_num, mode, value)
    /\ events' = events + 1
    /\ UNCHANGED <<release, max_strength, wave_queues, ble_state, ws_state, tick_pc,
                   ws_pending, ui_pending, ticks_since, last_gap, cleared>>
    /\ UNCHANGED smvars

\* test_a_btn / test_b_btn: the lambda calls self.send_strength_command, which
\* this release does not define; the AttributeError ends the slot and
\* nothing of the state changes
Conv_test_btn_clicked ==
    /\ release = "Conv"
    /\ events < MaxEvents
    /\ \E channel_num \in {1, 2} :
         last_op' = Op("test_button", IF channel_num = 1 THEN "A" ELSE "B", 1, 10, "")
    /\ ble_out' = <<>>
    /\ emitted' = <<>>
    /\ events' = events + 1
    /\ UNCHANGED <<release, current_strength, max_strength, wave_queues, ble_state, ws_state,
                   tick_pc, ws_pending, ui_pending, ticks_since, last_gap, cleared>>
    /\ UNCHANGED smvars

\* the queue is a deque() without maxlen, and only (x,y,z) is appended
Conv_PulseAppends(hex_waves) ==
    [k \in 1..NParsed(hex_waves) |-> ElementXYZ(hex_waves[k])]

Conv_PulseLoop(q, hex_waves) == q \o Conv_PulseAppends(hex_waves)

Conv_pulse(names) ==
    /\ release = "Conv"
    /\ CanReceive
    /\ \E ch_part \in ChParts, name \in names :
         LET channel == Upper(ch_part)
             hex_waves == PulseArray(name)
         IN  /\ IF channel \in Ch /\ hex_waves # <<>> /\ ElementOk(hex_waves[1]) THEN
                    /\ wave_queues' = [wave_queues EXCEPT
                                         ![channel] = Conv_PulseLoop(@, First100(hex_waves))]
                    /\ cleared' = [cleared EXCEPT ![channel] = FALSE]
                ELSE UNCHANGED <<wave_queues, cleared>>
             /\ ws_state' = ListenAfter(PulseRaises(channel, First100(hex_waves)))
             /\ last_op' = Op("pulse", channel, 0, 0, name)
    /\ ble_out' = <<>>
    /\ emitted' = <<>>
    /\ events' = events + 1
    /\ UNCHANGED <<release, current_strength, max_strength, ble_state, tick_pc,
                   ws_pending, ui_pending, ticks_since, last_gap>>
    /\ UNCHANGED smvars

Conv_handle_socket_message_pulse == Conv_pulse(PulseNames)

Conv_handle_socket_message_pulse_long == Conv_pulse(LongPulseNames)

Conv_update_max_strength ==
    /\ release = "Conv"
    /\ events < MaxEvents
    /\ \E a_value \in LimitInputs, b_value \in LimitInputs :
         /\ max_strength' = [c \in Ch |-> IF c = "A" THEN Min(LimitCeiling, a_value)
                                                     ELSE Min(LimitCeiling, b_value)]
         /\ last_op' = Op("limits", "AB", a_value, b_value, "")
    /\ ble_out' = <<>>
    /\ emitted' = <<>>
    /\ events' = events + 1
    /\ UNCHANGED <<release, current_strength, wave_queues, ble_state, ws_state, tick_pc,
                   ws_pending, ui_pending, ticks_since, last_gap, cleared>>
    /\ UNCHANGED smvars

\* a connect that succeeds; it starts process_wave_queues and listen_websocket
Conv_on_connect_clicked ==
    /\ release = "Conv"
    /\ ble_state = "none"
    /\ ble_state' = "connected"
    /\ tick_pc' = "A"
    /\ ws_state' = "connecting"
    /\ ble_out' = <<>>
    /\ emitted' = <<>>
    /\ last_op' = Op("connect", "-", 0, 0, "")
    /\ UNCHANGED <<release, current_strength, max_strength, wave_queues,
                   ws_pending, ui_pending, ticks_since, last_gap, cleared, events>>
    /\ UNCHANGED smvars

-----------------------------------------------------------------------------
(* New-Code: ProtocolConverter (core/protocol.py), as SocketManager uses it  *)

SM_v3_freq_to_v2(freq_input) ==
    LET f == Max(10, Min(1000, freq_input))
        x == FloorRoot(9 * f, 40)
        y == f - x
    IN  <<Clamp(1, 31, x), Clamp(1, 1023, y)>>

SM_v3_intensity_to_v2_z(intensity) == Min(31, Max(0, (intensity * 31) \div 100))

\* bytes([byte1, byte2, byte3]) raises ValueError when a value is above 255
SM_encode_pwm_channel(x0, y0, z0) ==
    LET x == Clamp(1, 31, x0)
        y == Clamp(1, 1023, y0)
        z == Clamp(0, 31, z0)
        byte1 == (x % 32) + ((y % 32) * 32)
        byte2 == ((y \div 32) % 32) + ((z % 32) * 32)
    IN  [raised |-> byte1 > 255 \/ byte2 > 255, data |-> <<byte1, byte2, 0>>]

\* encode_pwm_ab2 of ProtocolConverter: both strengths times 7, B in the low
\* 11 bits, A in the next 11 (SM_encode_pwm_ab2_Unscaled: without the
\* factor 7)
SM_encode_pwm_ab2_Unscaled(a, b) ==
    LET a_val == Min(a, 2047)
        b_val == Min(b, 2047)
    IN  << b_val % 256,
           ((b_val \div 256) % 8) + ((a_val % 32) * 8),
           (a_val \div 32) % 256 >>
SM_encode_pwm_ab2(a, b) ==
    LET a_val == Min(a * 7, 2047)
        b_val == Min(b * 7, 2047)
    IN  << b_val % 256,
           ((b_val \div 256) % 8) + ((a_val % 32) * 8),
           (a_val \div 32) % 256 >>

\* Strings are sequences of characters.
STRENGTH_PREFIX == <<"s", "t", "r", "e", "n", "g", "t", "h", "-">>

\* str.replace(old, ''): every occurrence, left to right, not overlapping
RECURSIVE StrRemove(_, _)
StrRemove(str, old) ==
    IF str = <<>> THEN <<>>
    ELSE IF Len(str) >= Len(old) /\ SubSeq(str, 1, Len(old)) = old
    THEN StrRemove(SubSeq(str, Len(old) + 1, Len(str)), old)
    ELSE <<Head(str)>> \o StrRemove(Tail(str), old)

\* str.split(sep) with a separator of one character
RECURSIVE StrSplit(_, _)
StrSplit(str, sep) ==
    IF \A i \in 1..Len(str) : str[i] # sep THEN <<str>>
    ELSE LET i == CHOOSE k \in 1..Len(str) :
                      str[k] = sep /\ \A j \in 1..(k - 1) : str[j] # sep
         IN  <<SubSeq(str, 1, i - 1)>> \o StrSplit(SubSeq(str, i + 1, Len(str)), sep)

\* int(str) over digits, signs, blanks and letters: blanks around are
\* stripped, then an optional sign and at least one decimal digit; anything
\* else raises ValueError
DigitVal ==
    ("0" :> 0) @@ ("1" :> 1) @@ ("2" :> 2) @@ ("3" :> 3) @@ ("4" :> 4) @@
    ("5" :> 5) @@ ("6" :> 6) @@ ("7" :> 7) @@ ("8" :> 8) @@ ("9" :> 9)

RECURSIVE StrStrip(_)
StrStrip(str) ==
    IF str = <<>> THEN <<>>
    ELSE IF Head(str) = " " THEN StrStrip(Tail(str))
    ELSE IF str[Len(str)] = " " THEN StrStrip(SubSeq(str, 1, Len(str) - 1))
    ELSE str

IntOk(str) ==
    LET t == StrStrip(str)
        u == IF t # <<>> /\ Head(t) \in {"-", "+"} THEN Tail(t) ELSE t
    IN  u # <<>> /\ \A i \in 1..Len(u) : u[i] \in DOMAIN DigitVal

RECURSIVE DigitsVal(_)
DigitsVal(u) ==
    IF u = <<>> THEN 0
    ELSE (10 * DigitsVal(SubSeq(u, 1, Len(u) - 1))) + DigitVal[u[Len(u)]]

IntOf(str) ==
    LET t == StrStrip(str)
    IN  IF Head(t) = "-" THEN 0 - DigitsVal(Tail(t))
        ELSE IF Head(t) = "+" THEN DigitsVal(Tail(t))
        ELSE DigitsVal(t)

\* if not (0 <= value <= 200) (ValueInRange_NoCeiling: only 0 <= value)
ValueInRange_NoCeiling(value) == 0 <= value
ValueInRange(value) == 0 <= value /\ value <= 200

\* parse_strength_command: the faults of the body are ValueErrors (of int()
\* and of the tests), and except Exception turns whatever is raised into a
\* ValueError
parse_strength_command(message) ==
    LET parts == StrSplit(StrRemove(message, STRENGTH_PREFIX), "+")
        body ==
          IF Len(parts) # 3 THEN PC_Raise("ValueError")
          ELSE IF \E i \in 1..3 : ~IntOk(parts[i]) THEN PC_Raise("ValueError")
          ELSE LET channel == IntOf(parts[1])
                   mode == IntOf(parts[2])
                   value == IntOf(parts[3])
               IN  IF channel \notin {1, 2} THEN PC_Raise("ValueError")
                   ELSE IF mode \notin {0, 1, 2} THEN PC_Raise("ValueError")
                   ELSE IF ~ValueInRange(value) THEN PC_Raise("ValueError")
                   ELSE PC_Return(<<mode, value>>, IF channel = 1 THEN "A" ELSE "B")
    IN  IF body.raised # "none" THEN PC_Raise("ValueError") ELSE body

-----------------------------------------------------------------------------
(* New-Code: SocketManager and the save button of StrengthManagerUI         *)

SM_ChannelNums == {1, 2, 3}
SM_Modes == {0, 1, 2, 3}
SM_Values == {30, 150, 201}

SM_DefaultFreq == 50

\* the _handle_strength_message that the class ends up with (the last of the
\* three definitions), called by _handle_msg_message, which catches what it
\* raises
SM_handle_strength_message ==
    /\ \E channel \in SM_ChannelNums, mode \in SM_Modes, value \in SM_Values :
       /\ sm_last_op' = StrengthOp(channel, mode, value)
       /\ IF channel \notin {1, 2} \/ mode \notin {0, 1, 2} \/ ~(0 <= value /\ value <= 200) THEN
             /\ sm_out' = <<>>
             /\ UNCHANGED channel_intensity
         ELSE IF (IF channel = 1 THEN "A" ELSE "B") \notin DOMAIN channel_intensity THEN
             \* self.channel_intensity[channel_letter] raises KeyError once a
             \* break message has replaced the dict by {1: 0, 2: 0}
             /\ sm_out' = <<>>
             /\ UNCHANGED channel_intensity
         ELSE
             LET channel_letter == IF channel = 1 THEN "A" ELSE "B"
                 current_intensity == channel_intensity[channel_letter]
                 new_intensity ==
                     IF mode = 0 THEN Max(0, current_intensity - value)
                     ELSE IF mode = 1 THEN Min(200, current_intensity + value)
                     ELSE Min(200, Max(0, value))
                 xy == SM_v3_freq_to_v2(SM_DefaultFreq)
                 command == SM_encode_pwm_channel(xy[1], xy[2],
                                                  SM_v3_intensity_to_v2_z(new_intensity))
                 char_uuid == IF channel = 1 THEN "PWM_A34" ELSE "PWM_B34"
             IN  /\ channel_intensity' = [channel_intensity EXCEPT ![channel_letter] = new_intensity]
                 /\ sm_out' = IF sm_ble_connected /\ ~command.raised
                              THEN <<Write(char_uuid, command.data)>>
                              ELSE <<>>
    /\ UNCHANGED <<sm_max_strength, sm_ble_connected>>
    /\ UNCHANGED sessvars
    /\ UNCHANGED <<mwvars, pcvars>>

\* StrengthManagerUI.save_strength_settings: the limits of SocketManager are
\* assigned, channel_intensity is not touched
SM_save_strength_settings ==
    /\ \E a_max \in LimitInputs, b_max \in LimitInputs :
       /\ sm_last_op' = Op("limits", "AB", a_max, b_max, "")
       /\ IF ~(0 <= a_max /\ a_max <= 200) \/ ~(0 <= b_max /\ b_max <= 200)
         THEN UNCHANGED sm_max_strength
         ELSE sm_max_strength' = [c \in Ch |-> IF c = "A" THEN a_max ELSE b_max]
    /\ sm_out' = <<>>
    /\ UNCHANGED <<channel_intensity, sm_ble_connected>>
    /\ UNCHANGED sessvars
    /\ UNCHANGED <<mwvars, pcvars>>

\* BLEManager.connect / the link going down: is_connected
BLE_connect ==
    /\ ~sm_ble_connected
    /\ sm_ble_connected' = TRUE
    /\ sm_last_op' = Op("connect", "-", 0, 0, "")
    /\ sm_out' = <<>>
    /\ UNCHANGED <<channel_intensity, sm_max_strength>>
    /\ UNCHANGED sessvars
    /\ UNCHANGED <<mwvars, pcvars>>

BLE_disconnect ==
    /\ sm_ble_connected
    /\ sm_ble_connected' = FALSE
    /\ sm_last_op' = Op("link_lost", "-", 0, 0, "")
    /\ sm_out' = <<>>
    /\ UNCHANGED <<channel_intensity, sm_max_strength>>
    /\ UNCHANGED sessvars
    /\ UNCHANGED <<mwvars, pcvars>>

-----------------------------------------------------------------------------
(* New-Code: BLEManager (core/ble_manager.py)                               *)

\* send_command: False without a connected client; else the write, True when
\* it returns and False when it raises. write_ok is the fate of the write.
\* (send_command_NoTry: the write outside of try / except)
send_command_NoTry(char_uuid, data, write_ok) ==
    IF bm_client # "connected" THEN [returned |-> "False", writes |-> <<>>]
    ELSE [returned |-> IF write_ok THEN "True" ELSE "raised",
          writes |-> <<Write(char_uuid, data)>>]
send_command(char_uuid, data, write_ok) ==
    IF bm_client # "connected" THEN [returned |-> "False", writes |-> <<>>]
    ELSE [returned |-> IF write_ok THEN "True" ELSE "False",
          writes |-> <<Write(char_uuid, data)>>]

\* BLEManager.connect: a client is created and connected; a connect that
\* raises leaves the client, not connected
BM_connect ==
    /\ \E ok \in BOOLEAN :
         /\ bm_client' = IF ok THEN "connected" ELSE "disconnected"
         /\ bm_ret' = [fn |-> "connect", channel |-> "-", strength |-> 0, link |-> bm_client,
                       write_ok |-> FALSE, returned |-> IF ok THEN "True" ELSE "False"]
    /\ bm_out' = <<>>
    /\ UNCHANGED <<bm_current_strength, pc_call, pc_result, mwvars, smcore>>

\* the peripheral drops the link: client.is_connected turns False
BM_LinkLost ==
    /\ bm_client = "connected"
    /\ bm_client' = "disconnected"
    /\ bm_out' = <<>>
    /\ bm_ret' = [fn |-> "link_lost", channel |-> "-", strength |-> 0, link |-> bm_client,
                  write_ok |-> FALSE, returned |-> "-"]
    /\ UNCHANGED <<bm_current_strength, pc_call, pc_result, mwvars, smcore>>

\* a call of send_command with a frame for PWM_AB2
BM_send_command ==
    /\ \E write_ok \in BOOLEAN :
         LET r == send_command("PWM_AB2", SM_encode_pwm_ab2(bm_current_strength["A"],
                                                            bm_current_strength["B"]),
                               write_ok)
         IN  /\ bm_out' = r.writes
             /\ bm_ret' = [fn |-> "send_command", channel |-> "-", strength |-> 0,
                           link |-> bm_client, write_ok |-> write_ok,
                           returned |-> r.returned]
    /\ UNCHANGED <<bm_client, bm_current_strength, pc_call, pc_result, mwvars, smcore>>

\* set_channel_strength: the strength is stored before the frame is sent,
\* and what send_command returns is returned; an exception raised in the
\* body is caught, and False returned
BM_set_channel_strength ==
    /\ \E channel \in {"A", "B", "C"}, strength \in {-5, 30, 150}, write_ok \in BOOLEAN :
         IF channel \notin {"A", "B"} THEN
             /\ bm_out' = <<>>
             /\ bm_ret' = [fn |-> "set_channel_strength", channel |-> channel,
                           strength |-> strength, link |-> bm_client,
                           write_ok |-> write_ok, returned |-> "False"]
             /\ UNCHANGED bm_current_strength
         ELSE
             LET st == Max(0, Min(DEFAULT_MAX_STRENGTH[channel], strength))
                 cs == [bm_current_strength EXCEPT ![channel] = st]
                 r == send_command("PWM_AB2", SM_encode_pwm_ab2(cs["A"], cs["B"]), write_ok)
             IN  /\ bm_current_strength' = cs
                 /\ bm_out' = r.writes
                 /\ bm_ret' = [fn |-> "set_channel_strength", channel |-> channel,
                               strength |-> strength, link |-> bm_client,
                               write_ok |-> write_ok,
                               returned |-> IF r.returned = "raised" THEN "False"
                                            ELSE r.returned]
    /\ UNCHANGED <<bm_client, pc_call, pc_result, mwvars, smcore>>

-----------------------------------------------------------------------------
(* New-Code: the session of SocketManager                                   *)

\* the envelopes that arrive, by the fields that the handlers read
SM_Types == {"invalid_json", Absent, "heartbeat", "hello", "command", "break", "bind", "other"}
SM_BindMessages == {Absent, "targetId", "200", "400"}
SM_ClientIds == {Absent, "c1"}
SM_TargetIds == {Absent, "", "app1"}

SM_Envelopes ==
    {Data(t, Absent, Absent, Absent) : t \in SM_Types \ {"bind"}} \cup
    {Data("bind", m, c, t) : m \in SM_BindMessages, c \in SM_ClientIds, t \in SM_TargetIds}

\* SocketManager.connect: whatever self.ws holds, a socket is opened and
\* stored in self.ws, and a _listen task is created; a socket that was open
\* before is neither closed nor referenced any more, and the task that
\* listens on it goes on. Nothing is sent, client_id and target_id are left
\* as they are. A connect that raises returns False.
SM_connect ==
    /\ sm_listeners < MaxListeners
    /\ \E connected \in BOOLEAN :
         IF connected
         THEN sm_ws' = "open" /\ sm_running' = TRUE /\ sm_listeners' = sm_listeners + 1
         ELSE UNCHANGED <<sm_ws, sm_running, sm_listeners>>
    /\ sm_sent' = <<>>
    /\ sm_received' = NoData
    /\ sm_out' = <<>>
    /\ sm_last_op' = Op("ws_connect", "-", 0, 0, "")
    /\ UNCHANGED <<client_id, target_id, channel_intensity, sm_max_strength, sm_ble_connected>>
    /\ UNCHANGED <<mwvars, pcvars>>

\* SocketManager.disconnect: a socket object that the peer has closed is
\* still an object, and is closed and dropped like an open one
SM_disconnect ==
    /\ sm_running' = FALSE
    /\ sm_listeners' = IF sm_ws = "open" THEN sm_listeners - 1 ELSE sm_listeners
    /\ IF sm_ws # "none"
       THEN sm_ws' = "none" /\ client_id' = "None" /\ target_id' = "None"
       ELSE UNCHANGED <<sm_ws, client_id, target_id>>
    /\ sm_sent' = <<>>
    /\ sm_received' = NoData
    /\ sm_out' = <<>>
    /\ sm_last_op' = Op("ws_disconnect", "-", 0, 0, "")
    /\ UNCHANGED <<channel_intensity, sm_max_strength, sm_ble_connected>>
    /\ UNCHANGED <<mwvars, pcvars>>

\* _listen: ws.recv() raises ConnectionClosed, the peer has closed the
\* socket; the loop ends and nothing else is touched
SM_ConnectionClosed ==
    /\ sm_ws = "open"
    /\ sm_running
    /\ sm_ws' = "closed"
    /\ sm_listeners' = sm_listeners - 1
    /\ sm_sent' = <<>>
    /\ sm_received' = NoData
    /\ sm_out' = <<>>
    /\ sm_last_op' = Op("ws_closed", "-", 0, 0, "")
    /\ UNCHANGED <<sm_running, client_id, target_id, channel_intensity, sm_max_strength,
                   sm_ble_connected>>
    /\ UNCHANGED <<mwvars, pcvars>>

\* send_strength_update: needs the socket and a client id; the dict lookups
\* raise KeyError, caught, once the keys are 1 and 2
SM_send_strength_update(cid, tid) ==
    IF cid = "None" \/ cid = "" \/ "A" \notin DOMAIN channel_intensity THEN <<>>
    ELSE << [kind |-> "ws", type |-> "msg", clientId |-> cid,
             targetId |-> IF tid = "None" THEN "" ELSE tid,
             message |-> <<channel_intensity["A"], channel_intensity["B"],
                           sm_max_strength["A"], sm_max_strength["B"]>>] >>

\* if .. data['message'] == '200' and 'targetId' in data and 'clientId' in data
\* (SM_BindSucceeds_AnyMessage: without the test of the message)
SM_BindSucceeds_AnyMessage(data) == data.targetId # Absent /\ data.clientId # Absent
SM_BindSucceeds(data) ==
    data.message = "200" /\ data.targetId # Absent /\ data.clientId # Absent

SM_handle_bind_message(data) ==
    IF data.message = "targetId" /\ data.clientId # Absent THEN
        /\ client_id' = data.clientId
        /\ sm_sent' = SM_send_strength_update(data.clientId, target_id)
        /\ UNCHANGED target_id
    ELSE IF SM_BindSucceeds(data) THEN
        /\ client_id' = data.clientId
        /\ target_id' = data.targetId
        /\ sm_sent' = SM_send_strength_update(data.clientId, data.targetId)
    ELSE
        /\ sm_sent' = <<>>
        /\ UNCHANGED <<client_id, target_id>>

\* ProtocolConverter.create_v2_command: bytes([x, y & 0xFF, y >> 8, z])
SM_create_v2_command(x, y, z) == <<x, y % 256, y \div 256, z>>

\* the stop frames go out only while the peripheral is connected, and only
\* then is channel_intensity replaced, by a dict with the keys 1 and 2 (here
\* "1" and "2"); the two writes suspend the task, the handler is one step
SM_handle_break_message ==
    IF sm_ble_connected THEN
        LET xy == SM_v3_freq_to_v2(SM_DefaultFreq)
            command == SM_create_v2_command(xy[1], xy[2], 0)
        IN  /\ sm_out' = <<Write("PWM_A34", command), Write("PWM_B34", command)>>
            /\ channel_intensity' = [k \in {"1", "2"} |-> 0]
    ELSE
        /\ sm_out' = <<>>
        /\ UNCHANGED channel_intensity

\* _handle_heartbeat_message: if self.ws, a heartbeat envelope with the
\* client id is sent
SM_handle_heartbeat_message == <<Envelope("heartbeat", client_id, "", "")>>

\* _listen and _handle_message: one received envelope. The dispatch on the
\* type sits in the else branch of the test for 'heartbeat', so that a
\* heartbeat is logged and nothing more, and _handle_heartbeat_message is
\* never reached; _handle_hello_message is not defined, the AttributeError
\* is caught like every other exception
SM_handle_message ==
    /\ sm_ws = "open"
    /\ sm_running
    /\ \E data \in SM_Envelopes :
         /\ sm_received' = data
         /\ IF data.type = "heartbeat" THEN
                /\ sm_sent' = <<>>
                /\ sm_out' = <<>>
                /\ UNCHANGED <<client_id, target_id, channel_intensity>>
            ELSE IF data.type = "break" THEN
                /\ SM_handle_break_message
                /\ sm_sent' = <<>>
                /\ UNCHANGED <<client_id, target_id>>
            ELSE IF data.type = "bind" THEN
                /\ SM_handle_bind_message(data)
                /\ sm_out' = <<>>
                /\ UNCHANGED channel_intensity
            ELSE IF data.type = "heartbeat" THEN
                /\ sm_sent' = SM_handle_heartbeat_message
                /\ sm_out' = <<>>
                /\ UNCHANGED <<client_id, target_id, channel_intensity>>
            ELSE
                \* invalid JSON, no type, hello, an unknown type, a command
                \* without a message: logged
                /\ sm_sent' = <<>>
                /\ sm_out' = <<>>
                /\ UNCHANGED <<client_id, target_id, channel_intensity>>
    /\ sm_last_op' = Op("message", "-", 0, 0, "")
    /\ UNCHANGED <<sm_ws, sm_running, sm_listeners, sm_max_strength, sm_ble_connected>>
    /\ UNCHANGED <<mwvars, pcvars>>

\* _listen of a task whose socket was replaced by a later connect: the
\* peer closes that socket too, recv() raises ConnectionClosed and the task
\* ends
SM_OrphanConnectionClosed ==
    /\ (IF sm_ws = "open" THEN sm_listeners - 1 ELSE sm_listeners) > 0
    /\ sm_listeners' = sm_listeners - 1
    /\ sm_sent' = <<>>
    /\ sm_received' = NoData
    /\ sm_out' = <<>>
    /\ sm_last_op' = Op("ws_orphan_closed", "-", 0, 0, "")
    /\ UNCHANGED <<sm_ws, sm_running, client_id, target_id, channel_intensity,
                   sm_max_strength, sm_ble_connected>>
    /\ UNCHANGED <<mwvars, pcvars>>

-----------------------------------------------------------------------------
(* Specifications *)

InitLimitsDefault == max_strength = DEFAULT_MAX_STRENGTH

Init ==
    /\ \E rel \in {"R103", "Conv"} : InitMainWindow(rel)
    /\ InitLimitsDefault
    /\ InitSM

Next ==
    \/ handle_socket_message_strength
    \/ handle_socket_message_strength_bulk
    \/ handle_strength_change_resume
    \/ handle_socket_message_pulse
    \/ handle_socket_message_clear
    \/ handle_socket_message_dropped
    \/ send_strength_command
    \/ clear_queue
    \/ update_max_strength
    \/ on_connect_clicked
    \/ on_connect_server_clicked
    \/ listen_websocket
    \/ ConnectionClosed
    \/ BleLinkLost
    \/ process_wave_queues
    \/ process_wave_queues_resume
    \/ Conv_handle_socket_message_strength
    \/ Conv_test_btn_clicked
    \/ Conv_handle_socket_message_pulse
    \/ Conv_update_max_strength
    \/ Conv_on_connect_clicked

Spec == Init /\ [][Next]_vars

\* pulse messages only, a 101-element array among them
NextLong ==
    \/ handle_socket_message_pulse_long
    \/ Conv_handle_socket_message_pulse_long
    \/ on_connect_clicked
    \/ on_connect_server_clicked
    \/ listen_websocket
    \/ Conv_on_connect_clicked
    \/ process_wave_queues
    \/ process_wave_queues_resume

SpecLong == Init /\ [][NextLong]_vars

\* the limits held fixed at any of InitLimits: no update_max_strength
InitFixedLimits ==
    /\ \E rel \in {"R103", "Conv"} : InitMainWindow(rel)
    /\ max_strength \in [Ch -> InitLimits]
    /\ InitSM

NextFixedLimits ==
    \/ handle_socket_message_strength
    \/ handle_strength_change_resume
    \/ send_strength_command
    \/ on_connect_clicked
    \/ on_connect_server_clicked
    \/ listen_websocket
    \/ BleLinkLost
    \/ Conv_handle_socket_message_strength
    \/ Conv_test_btn_clicked
    \/ Conv_on_connect_clicked

SpecFixedLimits == InitFixedLimits /\ [][NextFixedLimits]_vars

\* SocketManager of New-Code alone
InitSocketManager == InitMainWindow("R103") /\ InitLimitsDefault /\ InitSM

NextSocketManager ==
    \/ SM_handle_strength_message
    \/ SM_save_strength_settings
    \/ BLE_connect
    \/ BLE_disconnect

SpecSocketManager == InitSocketManager /\ [][NextSocketManager]_vars

\* the session of SocketManager, the intensities at values that strength
\* messages have left
SM_InitIntensities == {0, 30}

InitSession ==
    /\ InitMainWindow("R103")
    /\ InitLimitsDefault
    /\ channel_intensity \in [Ch -> SM_InitIntensities]
    /\ sm_max_strength = DEFAULT_MAX_STRENGTH
    /\ sm_ble_connected = FALSE
    /\ sm_out = <<>>
    /\ sm_last_op = NoOp
    /\ sm_ws = "none"
    /\ sm_running = FALSE
    /\ sm_listeners = 0
    /\ pc_call = NoCall
    /\ pc_result = NoResult
    /\ bm_client = "unset"
    /\ bm_current_strength = [c \in Ch |-> 0]
    /\ bm_out = <<>>
    /\ bm_ret = [fn |-> "init", channel |-> "-", strength |-> 0, link |-> "unset",
                 write_ok |-> FALSE, returned |-> "-"]
    /\ client_id = "None"
    /\ target_id = "None"
    /\ sm_sent = <<>>
    /\ sm_received = NoData

NextSession ==
    \/ SM_connect
    \/ SM_disconnect
    \/ SM_ConnectionClosed
    \/ SM_OrphanConnectionClosed
    \/ SM_handle_message
    \/ BLE_connect
    \/ BLE_disconnect

SpecSession == InitSession /\ [][NextSession]_vars

\* The conversion functions, each called once on an input: the texts of
\* parse_strength_command are put together from fields, of which it is
\* written down whether the field is an integer literal, and which
Field(txt, int, val) == [txt |-> txt, int |-> int, val |-> val]

PC_Fields ==
    { Field(<<"0">>, TRUE, 0), Field(<<"1">>, TRUE, 1), Field(<<"2">>, TRUE, 2),
      Field(<<"3">>, TRUE, 3), Field(<<"2", "0", "0">>, TRUE, 200),
      Field(<<"2", "0", "1">>, TRUE, 201), Field(<<"-", "1">>, TRUE, -1),
      Field(<<" ", "2">>, TRUE, 2), Field(<<"x">>, FALSE, 0), Field(<<>>, FALSE, 0) }


RECURSIVE JoinPlus(_)
JoinPlus(fields) ==
    IF fields = <<>> THEN <<>>
    ELSE IF Len(fields) = 1 THEN fields[1].txt
    ELSE fields[1].txt \o <<"+">> \o JoinPlus(Tail(fields))

PC_InitCall ==
    \/ \E pre \in { <<>>, STRENGTH_PREFIX, STRENGTH_PREFIX \o STRENGTH_PREFIX },
           fs \in UNION { [1..n -> PC_Fields] : n \in 0..3 } \cup
                 [1..4 -> { Field(<<"1">>, TRUE, 1), Field(<<"2">>, TRUE, 2),
                            Field(<<"x">>, FALSE, 0) }] :
         pc_call = Call("parse_strength_command", pre \o JoinPlus(fs), fs, <<>>)
    \/ \E a \in 0..200, b \in 0..200 :
         pc_call = Call("ProtocolConverter.encode_pwm_ab2", <<>>, <<>>, <<a, b>>)
    \/ \E x \in 1..31, y \in {1, 7, 8, 31, 32, 500, 1023}, z \in {0, 1, 7, 8, 31} :
         pc_call = Call("ProtocolConverter.encode_pwm_channel", <<>>, <<>>, <<x, y, z>>)
    \/ \E fn \in {"MainWindow.v3_freq_to_v2", "ProtocolConverter.v3_freq_to_v2"},
           f \in 10..1000 :
         pc_call = Call(fn, <<>>, <<>>, <<f>>)
    \/ \E x \in 1..31, y \in {1, 7, 8, 31, 32, 500, 1023}, z \in {0, 1, 7, 8, 31} :
         pc_call = Call("MainWindow.encode_pwm_channel", <<>>, <<>>, <<x, y, z>>)
    \/ \E intensity \in 0..255 :
         pc_call = Call("MainWindow.v3_intensity_to_v2_z", <<>>, <<>>, <<intensity>>)

PC_parse_strength_command ==
    /\ pc_call.fn = "parse_strength_command"
    /\ pc_result = NoResult
    /\ pc_result' = parse_strength_command(pc_call.text)
    /\ UNCHANGED <<pc_call, mwvars, smcore, bm_client, bm_current_strength, bm_out, bm_ret>>

PC_encode_pwm_ab2 ==
    /\ pc_call.fn = "ProtocolConverter.encode_pwm_ab2"
    /\ pc_result = NoResult
    /\ pc_result' = PC_Return(SM_encode_pwm_ab2(pc_call.args[1], pc_call.args[2]), "-")
    /\ UNCHANGED <<pc_call, mwvars, smcore, bm_client, bm_current_strength, bm_out, bm_ret>>

PC_encode_pwm_channel ==
    /\ pc_call.fn = "ProtocolConverter.encode_pwm_channel"
    /\ pc_result = NoResult
    /\ LET r == SM_encode_pwm_channel(pc_call.args[1], pc_call.args[2], pc_call.args[3])
       IN  pc_result' = IF r.raised THEN PC_Raise("ValueError") ELSE PC_Return(r.data, "-")
    /\ UNCHANGED <<pc_call, mwvars, smcore, bm_client, bm_current_strength, bm_out, bm_ret>>

\* (PC_v3_freq_to_v2_NewCode: the function of ProtocolConverter in the place
\* of the one of MainWindow)
PC_v3_freq_to_v2_NewCode ==
    /\ pc_call.fn = "MainWindow.v3_freq_to_v2"
    /\ pc_result = NoResult
    /\ pc_result' = PC_Return(SM_v3_freq_to_v2(pc_call.args[1]), "-")
    /\ UNCHANGED <<pc_call, mwvars, smcore, bm_client, bm_current_strength, bm_out, bm_ret>>
PC_v3_freq_to_v2 ==
    /\ pc_call.fn = "MainWindow.v3_freq_to_v2"
    /\ pc_result = NoResult
    /\ pc_result' = PC_Return(v3_freq_to_v2(pc_call.args[1]), "-")
    /\ UNCHANGED <<pc_call, mwvars, smcore, bm_client, bm_current_strength, bm_out, bm_ret>>

PC_SM_v3_freq_to_v2 ==
    /\ pc_call.fn = "ProtocolConverter.v3_freq_to_v2"
    /\ pc_result = NoResult
    /\ pc_result' = PC_Return(SM_v3_freq_to_v2(pc_call.args[1]), "-")
    /\ UNCHANGED <<pc_call, mwvars, smcore, bm_client, bm_current_strength, bm_out, bm_ret>>

PC_MainWindow_encode_pwm_channel ==
    /\ pc_call.fn = "MainWindow.encode_pwm_channel"
    /\ pc_result = NoResult
    /\ pc_result' = PC_Return(encode_pwm_channel(pc_call.args[1], pc_call.args[2],
                                                 pc_call.args[3]), "-")
    /\ UNCHANGED <<pc_call, mwvars, smcore, bm_client, bm_current_strength, bm_out, bm_ret>>

PC_v3_intensity_to_v2_z ==
    /\ pc_call.fn = "MainWindow.v3_intensity_to_v2_z"
    /\ pc_result = NoResult
    /\ pc_result' = PC_Return(<<v3_intensity_to_v2_z(pc_call.args[1])>>, "-")
    /\ UNCHANGED <<pc_call, mwvars, smcore, bm_client, bm_current_strength, bm_out, bm_ret>>

InitProtocol ==
    /\ InitMainWindow("R103")
    /\ InitLimitsDefault
    /\ channel_intensity = [c \in Ch |-> 0]
    /\ sm_max_strength = DEFAULT_MAX_STRENGTH
    /\ sm_ble_connected = FALSE
    /\ sm_out = <<>>
    /\ sm_last_op = NoOp
    /\ sm_ws = "none"
    /\ sm_running = FALSE
    /\ sm_listeners = 0
    /\ client_id = "None"
    /\ target_id = "None"
    /\ sm_sent = <<>>
    /\ sm_received = NoData
    /\ PC_InitCall
    /\ pc_result = NoResult
    /\ bm_client = "unset"
    /\ bm_current_strength = [c \in Ch |-> 0]
    /\ bm_out = <<>>
    /\ bm_ret = [fn |-> "init", channel |-> "-", strength |-> 0, link |-> "unset",
                 write_ok |-> FALSE, returned |-> "-"]

NextProtocol ==
    \/ PC_parse_strength_command
    \/ PC_encode_pwm_ab2
    \/ PC_encode_pwm_channel
    \/ PC_v3_freq_to_v2
    \/ PC_SM_v3_freq_to_v2
    \/ PC_MainWindow_encode_pwm_channel
    \/ PC_v3_intensity_to_v2_z

SpecProtocol == InitProtocol /\ [][NextProtocol]_vars

NextBLEManager ==
    \/ BM_connect
    \/ BM_LinkLost
    \/ BM_send_command
    \/ BM_set_channel_strength

SpecBLEManager == InitSocketManager /\ [][NextBLEManager]_vars

-----------------------------------------------------------------------------
(* Properties *)

\* the waveform frames among the writes of a step
FramesTo(char, out) == {i \in 1..Len(out) : out[i].char = char}

\* C1: with both limits held fixed at any value in 0..200, after any sequence
\* of strength adjustments (mode 0, 1, 2, any integer value, either channel)
\* handled by handle_strength_change, 0 <= current_strength[ch] <=
\* max_strength[ch] for both channels.
C1_StrengthWithinFixedLimits ==
    \A c \in Ch : current_strength[c] \in 0..max_strength[c]

\* two increases of 30 under a limit of 60 have brought channel A to its limit
C1_Witness ==
    /\ last_op = StrengthOp(1, 1, 30)
    /\ events = 2
    /\ max_strength["A"] = 60
    /\ current_strength["A"] = 60

\* C2: an increase (mode 1) or set (mode 2) whose candidate value exceeds the
\* limit of the channel is a rejected no-op of handle_strength_change: the
\* current strength of both channels is unchanged, no strength-pair frame is
\* written, and nothing is raised into the tasks (the listener and the tick
\* task go on as they were).
C2_Candidate(op) ==
    LET c == IF op.num = 1 THEN "A" ELSE "B"
    IN  IF op.mode = 1 THEN current_strength[c] + op.value ELSE op.value

C2_Limit(op) == IF op.num = 1 THEN max_strength["A"] ELSE max_strength["B"]

C2_RejectedNoOp ==
    [][ ( /\ last_op'.op = "strength"
          /\ last_op'.num \in {1, 2}
          /\ last_op'.mode \in {1, 2}
          /\ C2_Candidate(last_op') > C2_Limit(last_op') )
        => ( /\ current_strength' = current_strength
             /\ FramesTo("PWM_AB2", ble_out') = {}
             /\ ws_state' = ws_state
             /\ tick_pc' = tick_pc ) ]_vars

\* channel A at 90 under a limit of 100, the link up, an increase of 30 just
\* handled: still 90 and nothing written
C2_Witness ==
    /\ last_op = StrengthOp(1, 1, 30)
    /\ ble_state = "connected"
    /\ max_strength["A"] = 100
    /\ current_strength["A"] = 90
    /\ ble_out = <<>>

\* C3: lowering the limit of a channel below its current strength clamps the
\* current strength to the new limit, so 0 <= current <= max holds in every
\* state reached through any mix of limit updates and strength adjustments.
C3_CurrentClampedByLimitUpdate ==
    \A c \in Ch : 0 <= current_strength[c] /\ current_strength[c] <= max_strength[c]

\* C4: in SocketManager, after any sequence of strength-<ch>+<mode>+<value>
\* commands, channel_intensity[ch] never exceeds max_strength[ch], for both
\* channels.
C4_IntensityWithinCeiling ==
    \A c \in Ch : channel_intensity[c] <= sm_max_strength[c]

\* C5: on every tick of process_wave_queues, a channel whose queue holds fewer
\* than 4 entries is left unchanged and gets no waveform frame; a channel
\* whose queue holds at least 4 entries has exactly 4 removed in that tick.
\* (A tick suspended in the write for channel A serves channel B when it
\* resumes, in the step of process_wave_queues_resume.)
C5_TickEffect(c) ==
    LET q == wave_queues[c]
    IN  IF Len(q) < 4
        THEN /\ wave_queues'[c] = q
             /\ FramesTo(IF c = "A" THEN "PWM_A34" ELSE "PWM_B34", ble_out') = {}
        ELSE wave_queues'[c] = SubSeq(q, 5, Len(q))

C5_TickFlushesFourOrNothing ==
    [][ last_op'.op = "tick" =>
          /\ tick_pc = "A" => /\ C5_TickEffect("A")
                              /\ tick_pc' # "B" => C5_TickEffect("B")
          /\ tick_pc = "B" => C5_TickEffect("B") ]_vars

\* C6: the frame of a flush encodes the integer-truncated means (sum div 4)
\* of x, y and z of the 4 oldest samples of the queue of that channel, in
\* FIFO order, and is written to the waveform characteristic of that same
\* channel (A to PWM_A34, B to PWM_B34).
C6_FrameOf(q) ==
    encode_pwm_channel((q[1].x + q[2].x + q[3].x + q[4].x) \div 4,
                       (q[1].y + q[2].y + q[3].y + q[4].y) \div 4,
                       (q[1].z + q[2].z + q[3].z + q[4].z) \div 4)

C6_FlushedFrom(c, char, w) ==
    w.char = char =>
        /\ Len(wave_queues[c]) >= 4
        /\ w.data = C6_FrameOf(wave_queues[c])
        /\ wave_queues'[c] = SubSeq(wave_queues[c], 5, Len(wave_queues[c]))

C6_FrameIsMeanOfOldestFour ==
    [][ last_op'.op = "tick" =>
          \A i \in 1..Len(ble_out') :
              /\ ble_out'[i].char \in {"PWM_A34", "PWM_B34"}
              /\ C6_FlushedFrom("A", "PWM_A34", ble_out'[i])
              /\ C6_FlushedFrom("B", "PWM_B34", ble_out'[i]) ]_vars

\* the samples (2,98,21) (8,2,31) (13,1,20) (8,2,31) flushed for channel A:
\* sums 31, 103, 103, means 7, 25, 25, the frame 0xC80327 low byte first
C6_Witness ==
    /\ last_op.op = "tick"
    /\ ble_out = <<Write("PWM_A34", <<39, 3, 200>>)>>

\* C7: between two consecutive waveform frames written for the same channel
\* at least 4 ticks elapse, however many samples are queued.
C7_FourTicksBetweenFrames ==
    \A c \in Ch : last_gap[c] = 0 \/ last_gap[c] >= 4

\* C8: every entry of a wave queue is a triple (x in 1..31, y in 1..1023,
\* z in 0..31), in every state reached through pulse messages, strength
\* changes and clears.
C8_EntriesAreWaveSamples ==
    \A c \in Ch : \A i \in 1..Len(wave_queues[c]) :
        /\ wave_queues[c][i].tag = "xyz"
        /\ wave_queues[c][i].x \in 1..31
        /\ wave_queues[c][i].y \in 1..1023
        /\ wave_queues[c][i].z \in 0..31

\* C9: a wave queue never holds more than 100 entries; appending to a full
\* queue drops the oldest entries and keeps the order of the others.
C9_KeepsNewest(c) ==
    LET q == wave_queues[c]
        r == wave_queues'[c]
    IN  \E k \in 0..Len(q) :
            /\ Len(r) >= Len(q) - k
            /\ SubSeq(r, 1, Len(q) - k) = SubSeq(q, k + 1, Len(q))
            /\ k > 0 => Len(r) = 100

C9_BoundedDropOldest ==
    [][ \A c \in Ch :
          /\ Len(wave_queues'[c]) <= 100
          /\ last_op'.op = "pulse" => C9_KeepsNewest(c) ]_vars

\* C10: after a clear-1 message has been processed, the queue of channel A is
\* empty and no waveform frame is written to channel A until a new sample is
\* enqueued for A, under every interleaving of the handler with the tick task.
C10_ClearedStaysSilent ==
    [][ /\ cleared'["A"] => wave_queues'["A"] = <<>>
        /\ cleared["A"] => FramesTo("PWM_A34", ble_out') = {} ]_vars

\* a tick has passed over the cleared channel A and has flushed channel B
C10_Witness ==
    /\ cleared["A"]
    /\ last_op.op = "tick"
    /\ last_op.ch = "AB"
    /\ FramesTo("PWM_B34", ble_out) # {}

\* C11: a pulse-A message of n <= 100 valid 16-hex-digit elements appends
\* exactly n entries to the queue of channel A and leaves the queue of
\* channel B and both current strengths unchanged.
C11_ValidElement(e) == Len(e) = 16 /\ \A i \in 1..16 : e[i] \in 0..15

C11_AllValid(name) ==
    /\ Len(PulseArray(name)) <= 100
    /\ \A i \in 1..Len(PulseArray(name)) : C11_ValidElement(PulseArray(name)[i])

C11_PulseAppendsOnePerElement ==
    [][ ( /\ last_op'.op = "pulse"
          /\ last_op'.ch = "A"
          /\ C11_AllValid(last_op'.msg) )
        => ( /\ Len(wave_queues'["A"]) = Len(wave_queues["A"]) + Len(PulseArray(last_op'.msg))
             /\ wave_queues'["B"] = wave_queues["B"]
             /\ current_strength' = current_strength ) ]_vars

\* C13: a pulse message that holds any invalid element (non-hex text or a
\* wrong length) is dropped as a whole: both wave queues are as they were
\* before the message.
C13_InvalidPulseDroppedWhole ==
    [][ ( /\ last_op'.op = "pulse"
          /\ \E i \in 1..Len(PulseArray(last_op'.msg)) :
                 ~C11_ValidElement(PulseArray(last_op'.msg)[i]) )
        => wave_queues' = wave_queues ]_vars

\* C14: a strength or clear command with a field out of range (channel not 1
\* or 2, mode not 0, 1 or 2, value outside 0..200) is rejected: no current
\* strength and no wave queue changes, and nothing is written to the
\* peripheral.
C14_OutOfRange(op) ==
    \/ /\ op.op = "strength"
       /\ \/ op.num \notin {1, 2}
          \/ op.mode \notin {0, 1, 2}
          \/ op.value \notin 0..200
    \/ /\ op.op = "clear"
       /\ op.ch = "-"
       /\ op.msg \notin {"1", "2"}

C14_OutOfRangeRejected ==
    [][ C14_OutOfRange(last_op')
        => ( /\ current_strength' = current_strength
             /\ wave_queues' = wave_queues
             /\ ble_out' = <<>> ) ]_vars

\* the steps that handle an inbound message of the socket
InboundStep(op) ==
    \/ op.op \in {"pulse", "dropped"}
    \/ op.op = "strength" /\ op.msg = ""
    \/ op.op = "clear" /\ op.ch = "-"

\* C12: no inbound message tears the session down: after invalid JSON, a
\* missing type or message field, an unknown prefix, bad arity, non-numeric
\* fields or invalid hex, the receive loop still runs on the same open
\* socket.
C12_NoMessageEndsTheLoop ==
    [][ InboundStep(last_op') => (ws_state = "open" /\ ws_state' = "open") ]_vars

\* a message without a type field has been handled, and the listener is
\* back in recv on the open socket, ready for the next message
C12_Witness ==
    /\ last_op = Op("dropped", "-", 0, 0, "no_type")
    /\ ws_state = "open"
    /\ CanReceive

\* C15: every accepted strength adjustment is followed by exactly one write
\* to the strength-pair characteristic, whose payload encodes the pair (A,B)
\* after the change, together with a status event that carries the new value
\* of the adjusted channel. (In V1.0.3R the status event comes when the task
\* resumes after the write: the accepting step leaves it pending.)
C15_Channel(op) == IF op.num = 1 THEN "A" ELSE "B"

C15_Candidate(op) ==
    LET cur == current_strength[C15_Channel(op)]
    IN  IF op.mode = 0 THEN cur - op.value
        ELSE IF op.mode = 1 THEN cur + op.value
        ELSE op.value

C15_Accepted(op) ==
    /\ op.op = "strength"
    /\ op.mode \in {0, 1, 2}
    /\ C15_Candidate(op) <= max_strength[C15_Channel(op)]

C15_StatusOf(ch, pend) ==
    \E i \in 1..Len(pend) : pend[i].ch = ch /\ pend[i].new = current_strength'[ch]

C15_StatusFollows(ch) ==
    \/ \E i \in 1..Len(emitted') : emitted'[i] = StatusUpdate(ch, current_strength'[ch])
    \/ Len(ws_pending') = Len(ws_pending) + 1 /\ C15_StatusOf(ch, ws_pending')
    \/ Len(ui_pending') = Len(ui_pending) + 1 /\ C15_StatusOf(ch, ui_pending')

C15_AcceptedWritesPairOnce ==
    [][ /\ C15_Accepted(last_op') =>
             /\ ble_out' = <<Write("PWM_AB2", encode_pwm_ab2(current_strength'["A"],
                                                             current_strength'["B"]))>>
             /\ C15_StatusFollows(C15_Channel(last_op'))
        /\ last_op'.op = "strength_resume" =>
             \E i \in 1..Len(emitted') :
                 emitted'[i] = StatusUpdate(last_op'.ch, last_op'.value) ]_vars

\* C19: handling an inbound break envelope sets the current strength of both
\* channels to zero and empties both wave queues.
C19_BreakResetsBoth ==
    [][ (last_op'.op = "dropped" /\ last_op'.msg = "break")
        => ( /\ current_strength' = [c \in Ch |-> 0]
             /\ wave_queues' = [c \in Ch |-> <<>>] ) ]_vars

\* C20: when the socket opens, listen_websocket sends exactly one bind
\* envelope, with an empty targetId; no other step sends a bind envelope, and
\* no inbound message is received or handled before the socket is open.
C20_Binds(out) == {i \in 1..Len(out) : out[i].kind = "ws" /\ out[i].type = "bind"}

C20_Opens == ws_state # "open" /\ ws_state' = "open"

C20_OneBindBeforeReceiving ==
    [][ /\ C20_Opens => /\ Cardinality(C20_Binds(emitted')) = 1
                        /\ \A i \in C20_Binds(emitted') : emitted'[i].targetId = ""
        /\ ~C20_Opens => C20_Binds(emitted') = {}
        /\ InboundStep(last_op') => ws_state = "open" ]_vars

\* the socket has just been opened and the bind envelope is all that was sent
C20_Witness ==
    /\ last_op.op = "listen"
    /\ ws_state = "open"
    /\ emitted = <<Envelope("bind", "DEVICE_ID", "", "DGLAB")>>
    /\ events = 0

\* C16: SocketManager.target_id is set only when a bind envelope with the
\* message "200" that carries targetId and clientId is handled on the open
\* connection, and then to the targetId of that envelope; a bind envelope
\* with any other message never sets or changes target_id.
C16_HandledBind == sm_last_op'.op = "message" /\ sm_received'.type = "bind"

C17_TargetClearedWhenNotConnected ==
    sm_ws # "open" => target_id = "None"

\* C18: every heartbeat envelope received while the socket is open is
\* answered with a heartbeat envelope that carries the client id of the
\* bridge.
C18_HeartbeatAnswered ==
    [][ (sm_last_op'.op = "message" /\ sm_received'.type = "heartbeat")
        => \E i \in 1..Len(sm_sent') :
               /\ sm_sent'[i].type = "heartbeat"
               /\ sm_sent'[i].clientId = client_id ]_vars

\* C21: after the socket fails or is closed unexpectedly, the bridge goes
\* into a reconnecting state and tries the connection again (with a doubling
\* delay, for a bounded number of attempts): the step that ends an open
\* socket leaves the listener connecting again.
C21_ReconnectsAfterLoss ==
    [][ (ws_state = "open" /\ ws_state' # "open") => ws_state' = "connecting" ]_vars

\* C22: when the socket session ends (disconnect or loss of the connection),
\* both wave queues are emptied, and the current and the maximum strength of
\* both channels are left as they are.
C22_SessionEndClearsQueues ==
    [][ (ws_state = "open" /\ ws_state' # "open")
        => ( /\ wave_queues' = [c \in Ch |-> <<>>]
             /\ current_strength' = current_strength
             /\ max_strength' = max_strength ) ]_vars

\* C29: when several strength adjustments are in flight at once (tasks of
\* the socket handler and of the UI buttons), the writes to the strength-pair
\* characteristic are issued one at a time: at most one task is suspended in
\* its write to PWM_AB2.
C29_OneStrengthWriteInFlight ==
    Len(ws_pending) + Len(ui_pending) <= 1

\* C30: whenever a wave queue holds at least 4 entries and the peripheral
\* stays connected, a waveform frame for that channel is eventually written:
\* the tick task keeps running after any sequence of pulse messages,
\* strength changes and clears.
C30_TickTaskKeepsRunning ==
    tick_pc # "dead"

\* C23: a bridge instance has at most one running receive loop at any time;
\* a connect issued while a session is open creates no second listener.
C23_AtMostOneListener ==
    sm_listeners <= 1

\* the call of fn has run
C24_Ran(fn) == pc_call.fn = fn /\ pc_result # NoResult

\* the command that a text put together from these fields stands for
C24_Valid(fields) ==
    /\ Len(fields) = 3
    /\ \A i \in 1..3 : fields[i].int
    /\ fields[1].val \in {1, 2}
    /\ fields[2].val \in {0, 1, 2}
    /\ fields[3].val \in 0..200

\* C24: parse_strength_command is total: it returns a command (channel A for
\* 1 and B for 2, mode in {0,1,2}, value in 0..200) exactly when the text has
\* three integer fields that are such a command, and raises ValueError on
\* every other text; no other fault escapes.
C24_ParseIsTotal ==
    C24_Ran("parse_strength_command") =>
        IF C24_Valid(pc_call.fields)
        THEN pc_result = PC_Return(<<pc_call.fields[2].val, pc_call.fields[3].val>>,
                                   IF pc_call.fields[1].val = 1 THEN "A" ELSE "B")
        ELSE pc_result = PC_Raise("ValueError")

C24_Witness ==
    /\ C24_Ran("parse_strength_command")
    /\ pc_call.text = STRENGTH_PREFIX \o <<"2", "+", "2", "+", "2", "0", "0">>
    /\ pc_result = PC_Return(<<2, 200>>, "B")

\* the 3 bytes read as a little-endian word
C25_Word(out) == out[1] + (256 * out[2]) + (65536 * out[3])

\* C25: encode_pwm_ab2 of ProtocolConverter round-trips: for every (a,b) in
\* 0..200 x 0..200 the frame has 3 bytes, the low 11 bits of its
\* little-endian word divided by 7 are b, and bits 11..21 divided by 7 are a.
C25_Ab2RoundTrips ==
    C24_Ran("ProtocolConverter.encode_pwm_ab2") =>
        /\ pc_result.raised = "none"
        /\ Len(pc_result.out) = 3
        /\ \A i \in 1..3 : pc_result.out[i] \in 0..255
        /\ (C25_Word(pc_result.out) % 2048) \div 7 = pc_call.args[2]
        /\ ((C25_Word(pc_result.out) \div 2048) % 2048) \div 7 = pc_call.args[1]

C25_Witness ==
    /\ C24_Ran("ProtocolConverter.encode_pwm_ab2")
    /\ pc_call.args = <<200, 137>>
    /\ pc_result.raised = "none"

\* C26: encode_pwm_channel of ProtocolConverter returns a 3-byte frame for
\* every x in 1..31, y in 1..1023 and z in 0..31, and the frame read by its
\* layout (bits 0-4 x, bits 5-14 y, bits 15-19 z) gives back (x,y,z).
C26_ChannelFrameRoundTrips ==
    C24_Ran("ProtocolConverter.encode_pwm_channel") =>
        /\ pc_result.raised = "none"
        /\ Len(pc_result.out) = 3
        /\ LET word == C25_Word(pc_result.out)
           IN  << word % 32, (word \div 32) % 1024, (word \div 32768) % 32 >> = pc_call.args

\* C27: for every integer frequency in 10..1000, v3_freq_to_v2 (of
\* MainWindow and of ProtocolConverter) returns x in 1..31 and y in 1..1023.
C27_FreqWithinRanges ==
    (C24_Ran("MainWindow.v3_freq_to_v2") \/ C24_Ran("ProtocolConverter.v3_freq_to_v2")) =>
        /\ pc_result.raised = "none"
        /\ Len(pc_result.out) = 2
        /\ pc_result.out[1] \in 1..31
        /\ pc_result.out[2] \in 1..1023

\* a frequency at which max(1, ..) is what keeps y in its range
C27_Witness ==
    /\ C24_Ran("MainWindow.v3_freq_to_v2")
    /\ pc_call.args = <<601>>
    /\ pc_result.out = <<12, 1>>

\* C28 as stated: the conversion of 100 Hz yields x = 8 and y = 117.
C28_100HzGives8And117 ==
    (C24_Ran("MainWindow.v3_freq_to_v2") /\ pc_call.args = <<100>>) =>
        pc_result = PC_Return(<<8, 117>>, "-")

\* C28, amended: the conversion of 100 Hz by MainWindow.v3_freq_to_v2 yields
\* x = 8 and y = 2.
C28_100HzGives8And2 ==
    (C24_Ran("MainWindow.v3_freq_to_v2") /\ pc_call.args = <<100>>) =>
        pc_result = PC_Return(<<8, 2>>, "-")

C28_Witness ==
    /\ C24_Ran("MainWindow.v3_freq_to_v2")
    /\ pc_call.args = <<100>>

\* C32: MainWindow.encode_pwm_channel places x in bits 0-4, y in bits 5-14
\* and z in bits 15-19 of the little-endian 24-bit word, with bits 20-23
\* zero, for every x in 1..31, y in 1..1023, z in 0..31.
C32_ChannelWordLayout ==
    C24_Ran("MainWindow.encode_pwm_channel") =>
        /\ Len(pc_result.out) = 3
        /\ LET word == C25_Word(pc_result.out)
           IN  /\ word % 32 = pc_call.args[1]
               /\ (word \div 32) % 1024 = pc_call.args[2]
               /\ (word \div 32768) % 32 = pc_call.args[3]
               /\ word \div 1048576 = 0

\* C38: in the single-file releases v3_intensity_to_v2_z returns a value in
\* 20..31 for every intensity byte 0..255, and 20 for the intensity 0: no
\* element is turned into a sample with z = 0.
C38_ZAtLeast20 ==
    C24_Ran("MainWindow.v3_intensity_to_v2_z") =>
        /\ Len(pc_result.out) = 1
        /\ pc_result.out[1] \in 20..31
        /\ pc_call.args = <<0>> => pc_result.out = <<20>>

C38_Witness ==
    /\ C24_Ran("MainWindow.v3_intensity_to_v2_z")
    /\ pc_call.args = <<0>>
    /\ pc_result.out = <<20>>

\* C34: the depth check and the removal of 4 entries in process_wave_queues
\* are one step: whatever the pulse, clear and UI handlers did before it, a
\* pass of the tick that takes entries from a queue found at least 4 there
\* and took the 4 oldest.
C34_FlushOnlyFromFourOrMore ==
    [][ \A c \in Ch :
          (last_op'.op = "tick" /\ wave_queues'[c] # wave_queues[c])
          => /\ Len(wave_queues[c]) >= FlushSize
             /\ wave_queues'[c] = SubSeq(wave_queues[c], FlushSize + 1, Len(wave_queues[c])) ]_vars

\* the pass over channel B, resumed after the write for channel A, flushes
C34_Witness ==
    /\ last_op = Op("tick", "B", 0, 0, "")
    /\ ble_out # <<>>

\* C36: samples leave a wave queue only as part of a frame that is written
\* to the peripheral: a pass of the tick that takes entries from the queue
\* of a channel writes a waveform frame for that channel, and while the link
\* is down the tick leaves the queues as they are.
C36_ConsumedOnlyWhenWritten ==
    [][ \A c \in Ch :
          (last_op'.op = "tick" /\ wave_queues'[c] # wave_queues[c])
          => /\ ble_state = "connected"
             /\ FramesTo(PwmChar(c), ble_out') # {} ]_vars

\* C31: a strength message with four '+'-separated fields
\* (strength-<a>+<b>+<aMax>+<bMax>) is a bulk state-sync and is never
\* executed as an adjustment of one channel: the step that handles it leaves
\* the strengths as they are or sets them to the pair (a, b) it reports.
C31_BulkSyncIsNoAdjust ==
    [][ last_op'.msg = "bulk"
        => \/ current_strength' = current_strength
           \/ current_strength' = [c \in Ch |-> IF c = "A" THEN last_op'.num
                                                            ELSE last_op'.mode] ]_vars

\* C35: SocketManager.channel_intensity always has exactly the keys 'A' and
\* 'B', after any sequence of envelopes (break included), so that a valid
\* strength command finds the channel it addresses.
C35_IntensityKeysAB ==
    DOMAIN channel_intensity = Ch

\* C33: BLEManager.send_command issues no characteristic write while the
\* link is not connected and never raises: it returns False when the client
\* is missing or not connected and when the write fails, and True only after
\* a write that succeeded.
C33_SendCommandIsSafe ==
    bm_ret.fn = "send_command" =>
        /\ bm_ret.returned \in {"True", "False"}
        /\ bm_ret.returned = "True" <=> (bm_ret.link = "connected" /\ bm_ret.write_ok)
        /\ bm_ret.link # "connected" => bm_out = <<>>
        /\ bm_ret.returned = "True" => Len(bm_out) = 1

\* a write that failed on a connected link
C33_Witness ==
    /\ bm_ret.fn = "send_command"
    /\ bm_ret.link = "connected"
    /\ ~bm_ret.write_ok
    /\ bm_ret.returned = "False"

\* C37: if BLEManager.set_channel_strength returns False (channel invalid,
\* link down or write failed), current_strength of both channels is the same
\* as before the call.
C37_FalseLeavesStrength ==
    [][ (bm_ret'.fn = "set_channel_strength" /\ bm_ret'.returned = "False")
        => bm_current_strength' = bm_current_strength ]_vars

====
